---- MODULE Spec2Model ----
(***************************************************************************)
(* HoloEngineRuntime: the depth-sort worker (src/utils/depthWorker.js),    *)
(* the host-side handler of its replies (src/utils/splatObjectLoader.js)   *)
(* and the frame orchestration of HoloRP.render (core/utils/holoRP.js).    *)
(*                                                                         *)
(* Fixed-point conventions.  The entries 2, 6 and 10 of a view-projection  *)
(* matrix (its camera-Z row) are multiples of 1/ViewUnit and the point     *)
(* coordinates are multiples of 1/PosUnit, so every product, sum and       *)
(* scaling of runSort is exact in IEEE doubles and is an integer           *)
(* computation here.  Indices stored in a depth index are the 0-based      *)
(* indices of the code; sequences are 1-based as usual.                    *)
(***************************************************************************)
EXTENDS Integers, Sequences, FiniteSets, TLC

\* ------------------------------------------------------------------ bounds
MaxPoints == 3          \* points of an object in the sort specification
MaxMsgs == 3            \* host -> worker messages after the texture (Spec)
MaxSortMsgs == 2        \* host -> worker messages after the texture (SpecSort)
MaxFrames == 2          \* calls of render (SpecRender)
MaxObjects == 4         \* SplatObjects created over a run (SpecScene)
MaxYaw == 120           \* largest yaw a camera is turned to, in 1/100 rad (SpecCamera)

\* --------------------------------------------------------------- constants
NumBuckets == 65536     \* 256 * 256 buckets of the counting sort
DepthScale == 4096      \* depth key scale
SkipThresholdInv == 100 \* the skip threshold is 0.01 = 1 / 100
ViewUnit == 16 * 16     \* camera-Z row entries are k / 256
PosUnit == 2 * 16       \* point coordinates are k / 32

Strategies == {"none", "front-to-back", "back-to-front"}

\* camera-Z rows (entries 2, 6, 10 of the matrix) the host sends
ViewRows == { <<0, 0, 4>>, <<0, 0, 5>>, <<0, 0, 7>>, <<-3, 0, 2>> }

\* point positions an object may contain
Points == { <<0, 0, 0>>, <<0, 0, 1>>, <<0, 0, 2>>, <<1, 0, -1>>, <<0, 1, 3>> }

\* the point lists of the objects of Spec (the protocol specification)
ProtocolTextures == { << <<0, 0, 1>>, <<0, 0, 0>>, <<0, 1, 3>> >> }

\* the point lists of the objects of SpecSort: every list of at most MaxPoints
SortTextures == UNION { [1..n -> Points] : n \in 0..MaxPoints }

\* `undefined` for a view matrix: matrices carry the identity (id) of the
\* array object, which is what `lastView !== viewProj` compares
NoView == [id |-> 0, row |-> <<0, 0, 0>>]

VARIABLES
  \* closure state of createWorker
  lastProj, positions, viewProj, vertexCount, lastVertexCount,
  sortRunning, sortStrategy, lastSortStrategy,
  \* the worker's event loop: messages received, pending setTimeout
  \* callbacks, and replies posted to the host but not yet handled
  inbox, timers, outbox,
  \* host side: the object's index buffer and the handler's closure
  indexBufferData, objVertexCount, ready, firstDepthSortReceived,
  \* history
  budget,        \* messages the host may still post
  nextViewId,    \* identity given to the next view matrix
  inFlight,      \* sorts started and not yet marked complete
  runCalls,      \* number of calls of runSort
  lastRunView,   \* identity of the view passed to the last call of runSort
  arrivedInFlight, \* a view message was handled while a sort was in flight
  changedSinceSort, \* the strategy or the vertex count changed since the last sort
  sortLog,       \* every reply ever posted, in the order of posting
  applied,       \* number of replies the host handler has accepted
  task,          \* the handler that ran last
  \* the render pipeline (HoloRP) and its render target
  objects,       \* this.objects, in insertion order
  viewMatrix,    \* this.viewMatrix (0 is null)
  showDepthVisualization, dvRenderer, dvFramebuffer, dvSize,
  targetKind, canvasSize,
  \* the last call of render: what it did, whether it threw, whether it
  \* reached endFrame; what it was given, and whether that was what the call
  \* before it was given
  frameLog, threw, ended, frameNo, curRender, sameRender,
  began,         \* whether beginFrame succeeded in the last call of render
  lastOrder,     \* the objectOrder argument of the last call of render
  \* the render targets (SpecTarget): the canvas element and its window, the
  \* fields of the WebXR target, the framebuffer binding and viewport of gl
  canvasClient, windowInner, canvasBacking, currentViewport,
  xrFrame, xrPose, xrGlLayer, xrViews,
  glState,
  beginResult,   \* what the last beginFrame returned ("none" before the first)
  beforeBegin,   \* the target and gl as they were when that call started
  \* worker errors (SpecError): error events on their way to worker.onerror,
  \* calls of the error callback, the object as it was before the last one
  pendingErrors, reportedErrors, beforeError,
  \* the scene (SpecScene): SceneManager.objectList, the workers not
  \* terminated, the objects whose texture and index buffer are not deleted,
  \* the ids in HoloRP.objects, the number of SplatObjects created
  objectList, objectsMap, liveWorkers, liveGpu, pipelineIds, created, moved,
  \* the cameras (SpecCamera): a Camera and its clone, angles in 1/100 rad
  camera, cloned,
  \* a Camera watched for its projection and vector attributes
  \* (SpecOptics), and the last call made on it with the camera as it was
  optics, cameraOp,
  \* the state of the WebGL context the passes set (SpecGrid), and the last
  \* pass with the state it found
  glCtx, glOp,
  \* the loading of scene objects by the runtime component (SpecLoad): the
  \* scene list and the objects' flags, the loadingRef set, the workerReadyRef
  \* map, the pipeline's renderable objects, the suspended loadAllObjects
  \* calls, the first orderings on their way from workers, the pending
  \* onLoadComplete timeout, whether the effects have yet to run for the
  \* current sceneVersion, and what the last onLoadComplete call found
  rtList, rtObj, loadingRef, workerReadyRef, renderObjs, loadTasks, firstSorts,
  loadCompleteTimer, effectsPending, versionChanged, loadComplete

workerVars == <<lastProj, positions, viewProj, vertexCount, lastVertexCount,
                sortRunning, sortStrategy, lastSortStrategy, inbox, timers, outbox>>
hostVars == <<indexBufferData, objVertexCount, ready, firstDepthSortReceived>>
renderVars == <<objects, viewMatrix, showDepthVisualization, dvRenderer, dvFramebuffer,
                dvSize, targetKind, canvasSize, frameLog, threw, ended, frameNo,
                curRender, sameRender, began, lastOrder>>
targetVars == <<canvasClient, windowInner, canvasBacking, currentViewport,
                xrFrame, xrPose, xrGlLayer, xrViews, glState, beginResult, beforeBegin>>
errorVars == <<pendingErrors, reportedErrors, beforeError>>
sceneVars == <<objectList, objectsMap, liveWorkers, liveGpu, pipelineIds, created, moved>>
cameraVars == <<camera, cloned>>
opticsVars == <<optics, cameraOp>>
glVars == <<glCtx, glOp>>
loadVars == <<rtList, rtObj, loadingRef, workerReadyRef, renderObjs, loadTasks, firstSorts,
              loadCompleteTimer, effectsPending, versionChanged, loadComplete>>
extVars == <<opticsVars, glVars, loadVars>>
historyVars == <<budget, nextViewId, inFlight, runCalls, lastRunView,
                 arrivedInFlight, changedSinceSort, sortLog, applied, task>>

\* ------------------------------------------------------------ pure helpers

\* x | 0 of a quotient: truncation toward zero (b > 0)
TruncDiv(a, b) == IF a >= 0 THEN a \div b ELSE -((-a) \div b)

\* Math.hypot(...) < 0.01 on the three camera-Z entries
SqDist(a, b) ==
  (a[1] - b[1]) * (a[1] - b[1]) + (a[2] - b[2]) * (a[2] - b[2]) + (a[3] - b[3]) * (a[3] - b[3])

Near(a, b) ==
  SqDist(a, b) * SkipThresholdInv * SkipThresholdInv < ViewUnit * ViewUnit

\* the integer depth key of one point
DepthKey(row, p) ==
  TruncDiv((row[1] * p[1] + row[2] * p[2] + row[3] * p[3]) * DepthScale, ViewUnit * PosUnit)

SeqMax(s) == CHOOSE x \in {s[i] : i \in DOMAIN s} : \A i \in DOMAIN s : s[i] <= x
SeqMin(s) == CHOOSE x \in {s[i] : i \in DOMAIN s} : \A i \in DOMAIN s : x <= s[i]

\* ((key - minDepth) * depthInv) | 0 with depthInv = 65536 / (maxDepth - minDepth).
\* maxDepth = minDepth gives depthInv = Infinity and 0 * Infinity = NaN, NaN | 0 = 0.
\* For 1 <= maxDepth - minDepth <= 48 the double product k * (65536 / r)
\* truncates to the exact quotient floor(k * 65536 / r) (in particular to
\* 65536 for k = r); the point and row sets keep the key range below 49.
Bucket(key, minDepth, maxDepth) ==
  IF maxDepth = minDepth THEN 0
  ELSE TruncDiv((key - minDepth) * NumBuckets, maxDepth - minDepth)

\* an index a Uint32Array(256 * 256) holds; reads and writes at any other
\* index are dropped by the typed array
InCounts(b) == b >= 0 /\ b < NumBuckets

\* starts0[b] after the prefix-sum loop of the strategy
Starts0(bk, strategy, b) ==
  IF strategy = "front-to-back"
    THEN Cardinality({i \in DOMAIN bk : InCounts(bk[i]) /\ bk[i] < b})
  ELSE IF strategy = "back-to-front"
    THEN Cardinality({i \in DOMAIN bk : InCounts(bk[i]) /\ bk[i] > b})
  ELSE 0

\* the scatter loop: depthIndex[starts0[depthBucket]++] = i
RECURSIVE Scatter(_, _, _, _)
Scatter(i, bk, starts, out) ==
  IF i > Len(bk) THEN out
  ELSE LET b == bk[i] IN
    IF InCounts(b)
      THEN Scatter(i + 1, bk, [starts EXCEPT ![b] = @ + 1],
                   [out EXCEPT ![starts[b] + 1] = i - 1])
      ELSE Scatter(i + 1, bk, starts, out)

\* the depthIndex array runSort posts for the points pts
DepthSort(pts, row, strategy) ==
  LET n == Len(pts)
      sizeList == [i \in 1..n |-> DepthKey(row, pts[i])]
  IN IF strategy = "none" \/ n = 0 THEN [i \in 1..n |-> i - 1]
     ELSE LET minDepth == SeqMin(sizeList)
              maxDepth == SeqMax(sizeList)
              bk == [i \in 1..n |-> Bucket(sizeList[i], minDepth, maxDepth)]
              used == {b \in {bk[i] : i \in 1..n} : InCounts(b)}
              starts0 == [b \in used |-> Starts0(bk, strategy, b)]
          IN Scatter(1, bk, starts0, [i \in 1..n |-> 0])

\* ------------------------------------------------------------- the worker

\* the worker's closure state with its event loop and history, as a record
Worker ==
  [lastProj |-> lastProj, positions |-> positions, viewProj |-> viewProj,
   vertexCount |-> vertexCount, lastVertexCount |-> lastVertexCount,
   sortRunning |-> sortRunning, sortStrategy |-> sortStrategy,
   lastSortStrategy |-> lastSortStrategy, timers |-> timers, outbox |-> outbox,
   inFlight |-> inFlight, runCalls |-> runCalls, lastRunView |-> lastRunView,
   arrivedInFlight |-> arrivedInFlight, changedSinceSort |-> changedSinceSort,
   sortLog |-> sortLog]

SetWorker(w) ==
  /\ lastProj' = w.lastProj
  /\ positions' = w.positions
  /\ viewProj' = w.viewProj
  /\ vertexCount' = w.vertexCount
  /\ lastVertexCount' = w.lastVertexCount
  /\ sortRunning' = w.sortRunning
  /\ sortStrategy' = w.sortStrategy
  /\ lastSortStrategy' = w.lastSortStrategy
  /\ timers' = w.timers
  /\ outbox' = w.outbox
  /\ inFlight' = w.inFlight
  /\ runCalls' = w.runCalls
  /\ lastRunView' = w.lastRunView
  /\ arrivedInFlight' = w.arrivedInFlight
  /\ changedSinceSort' = w.changedSinceSort
  /\ sortLog' = w.sortLog

\* the skip-heuristic branch taken when the strategy differs instead of when it is the same
SkipCandidateInverted(w, forceSort) ==
  /\ ~forceSort
  /\ w.lastSortStrategy # w.sortStrategy
  /\ w.lastVertexCount = w.vertexCount
  /\ w.lastProj # NoView

\* the condition of the skip-heuristic branch of runSort
SkipCandidate(w, forceSort) ==
  /\ ~forceSort
  /\ w.lastSortStrategy = w.sortStrategy
  /\ w.lastVertexCount = w.vertexCount
  /\ w.lastProj # NoView

\* runSort(viewProj, forceSort)
RunSort(w, view, forceSort) ==
  LET c == [w EXCEPT !.runCalls = @ + 1, !.lastRunView = view.id]
      strategyChanged == w.lastSortStrategy # w.sortStrategy
      u == IF SkipCandidate(w, forceSort) THEN c
           ELSE [c EXCEPT
                   !.lastSortStrategy = IF strategyChanged \/ forceSort THEN w.sortStrategy ELSE @,
                   !.lastVertexCount = w.vertexCount]
      reply == [depthIndex |-> DepthSort(w.positions.pts, view.row, w.sortStrategy),
                viewProj |-> view, vertexCount |-> w.vertexCount]
      entry == [depthIndex |-> reply.depthIndex, viewProj |-> view,
                vertexCount |-> w.vertexCount, strategy |-> w.sortStrategy]
  IN IF ~w.positions.loaded \/ view = NoView THEN c
     ELSE IF SkipCandidate(w, forceSort) /\ Near(w.lastProj.row, view.row) THEN c
     ELSE [u EXCEPT
             !.lastProj = view,
             !.lastSortStrategy = IF w.sortStrategy = "none" THEN @ ELSE w.sortStrategy,
             !.outbox = Append(@, reply),
             !.sortLog = Append(@, entry),
             !.changedSinceSort = FALSE]

\* throttledSort without the sortRunning test
ThrottleGuardNoRunningTest(w) == w.viewProj # NoView /\ w.positions.loaded

\* the guard of throttledSort
ThrottleGuard(w) == ~w.sortRunning /\ w.viewProj # NoView /\ w.positions.loaded

\* throttledSort()
ThrottledSort(w) ==
  IF ThrottleGuard(w)
    THEN LET lastView == w.viewProj
             s == RunSort([w EXCEPT !.sortRunning = TRUE, !.inFlight = @ + 1,
                                    !.arrivedInFlight = FALSE], lastView, FALSE)
         IN [s EXCEPT !.timers = Append(@, [kind |-> "throttled", lastView |-> lastView.id])]
    ELSE w

\* the two setTimeout callbacks: the one of throttledSort re-checks the view,
\* the one of the sortStrategy branch only clears sortRunning
TimerCallback(w, t) ==
  LET d == [w EXCEPT !.sortRunning = FALSE, !.inFlight = @ - 1]
  IN IF t.kind = "throttled" /\ t.lastView # d.viewProj.id
        /\ d.viewProj # NoView /\ d.positions.loaded
       THEN ThrottledSort(d)
       ELSE d

\* onmessage, branch e.data.texture
OnTexture(w, m) ==
  [w EXCEPT !.vertexCount = Len(m.texture),
            !.positions = [loaded |-> TRUE, pts |-> m.texture]]

\* a sortStrategy branch that records the strategy and leaves the sort to the next view
OnSortStrategyDeferred(w, m) ==
  [w EXCEPT !.sortStrategy = m.strategy,
            !.lastSortStrategy = w.sortStrategy,
            !.changedSinceSort = @ \/ (m.strategy # w.sortStrategy)]

\* onmessage, branch e.data.sortStrategy
OnSortStrategy(w, m) ==
  LET oldStrategy == w.sortStrategy
      a == [w EXCEPT !.sortStrategy = m.strategy,
                     !.lastSortStrategy = oldStrategy,
                     !.changedSinceSort = @ \/ (m.strategy # oldStrategy)]
  IN IF a.viewProj # NoView /\ a.positions.loaded /\ ~a.sortRunning
       THEN LET s == RunSort([a EXCEPT !.sortRunning = TRUE, !.inFlight = @ + 1,
                                       !.arrivedInFlight = FALSE], a.viewProj, TRUE)
            IN [s EXCEPT !.timers = Append(@, [kind |-> "strategy", lastView |-> 0])]
       ELSE a

\* onmessage, branch e.data.view
OnView(w, m) ==
  ThrottledSort([w EXCEPT !.viewProj = m.view,
                          !.arrivedInFlight = @ \/ w.sortRunning])

\* ---------------------------------------------------------------- messages
TextureMsg(pts) == [type |-> "texture", texture |-> pts, strategy |-> "none", view |-> NoView]
StrategyMsg(s) == [type |-> "sortStrategy", texture |-> <<>>, strategy |-> s, view |-> NoView]
ViewMsg(id, row) == [type |-> "view", texture |-> <<>>, strategy |-> "none",
                     view |-> [id |-> id, row |-> row]]

\* an update in place that keeps the first element of a store of the same size
BufferDataKeepFirst(old, depthIndex) ==
  IF Len(old) = Len(depthIndex) /\ Len(old) > 0
    THEN [depthIndex EXCEPT ![1] = old[1]]
    ELSE depthIndex

\* gl.bufferData(gl.ARRAY_BUFFER, depthIndex, gl.DYNAMIC_DRAW): new data store
BufferData(old, depthIndex) == depthIndex

\* ----------------------------------------------------------------- actions

\* the host posts { view: viewProj }
HostPostView ==
  /\ budget > 0
  /\ \E row \in ViewRows : inbox' = Append(inbox, ViewMsg(nextViewId, row))
  /\ nextViewId' = nextViewId + 1
  /\ budget' = budget - 1
  /\ task' = "postView"
  /\ UNCHANGED <<lastProj, positions, viewProj, vertexCount, lastVertexCount,
                 sortRunning, sortStrategy, lastSortStrategy, timers, outbox>>
  /\ UNCHANGED hostVars
  /\ UNCHANGED <<inFlight, runCalls, lastRunView, arrivedInFlight,
                 changedSinceSort, sortLog, applied>>
  /\ UNCHANGED <<renderVars, targetVars, errorVars, sceneVars, cameraVars, extVars>>

\* the host posts { sortStrategy }
HostPostSortStrategy ==
  /\ budget > 0
  /\ \E s \in Strategies : inbox' = Append(inbox, StrategyMsg(s))
  /\ budget' = budget - 1
  /\ task' = "postSortStrategy"
  /\ UNCHANGED <<lastProj, positions, viewProj, vertexCount, lastVertexCount,
                 sortRunning, sortStrategy, lastSortStrategy, timers, outbox>>
  /\ UNCHANGED hostVars
  /\ UNCHANGED <<nextViewId, inFlight, runCalls, lastRunView, arrivedInFlight,
                 changedSinceSort, sortLog, applied>>
  /\ UNCHANGED <<renderVars, targetVars, errorVars, sceneVars, cameraVars, extVars>>

\* self.onmessage runs for the oldest message
WorkerOnTexture ==
  /\ inbox # <<>> /\ Head(inbox).type = "texture"
  /\ SetWorker(OnTexture(Worker, Head(inbox)))
  /\ inbox' = Tail(inbox)
  /\ task' = "texture"
  /\ UNCHANGED hostVars
  /\ UNCHANGED <<budget, nextViewId, applied>>
  /\ UNCHANGED <<renderVars, targetVars, errorVars, sceneVars, cameraVars, extVars>>

WorkerOnSortStrategy ==
  /\ inbox # <<>> /\ Head(inbox).type = "sortStrategy"
  /\ SetWorker(OnSortStrategy(Worker, Head(inbox)))
  /\ inbox' = Tail(inbox)
  /\ task' = "sortStrategy"
  /\ UNCHANGED hostVars
  /\ UNCHANGED <<budget, nextViewId, applied>>
  /\ UNCHANGED <<renderVars, targetVars, errorVars, sceneVars, cameraVars, extVars>>

WorkerOnView ==
  /\ inbox # <<>> /\ Head(inbox).type = "view"
  /\ SetWorker(OnView(Worker, Head(inbox)))
  /\ inbox' = Tail(inbox)
  /\ task' = "view"
  /\ UNCHANGED hostVars
  /\ UNCHANGED <<budget, nextViewId, applied>>
  /\ UNCHANGED <<renderVars, targetVars, errorVars, sceneVars, cameraVars, extVars>>

\* the oldest setTimeout(..., 0) callback runs
WorkerTimer ==
  /\ timers # <<>>
  /\ SetWorker(TimerCallback([Worker EXCEPT !.timers = Tail(timers)], Head(timers)))
  /\ task' = "timer"
  /\ UNCHANGED inbox
  /\ UNCHANGED hostVars
  /\ UNCHANGED <<budget, nextViewId, applied>>
  /\ UNCHANGED <<renderVars, targetVars, errorVars, sceneVars, cameraVars, extVars>>

\* the handler of createStandardWorkerMessageHandler runs for the oldest reply
HostOnMessage ==
  /\ outbox # <<>>
  /\ LET e == Head(outbox) IN
       /\ indexBufferData' = BufferData(indexBufferData, e.depthIndex)
       /\ objVertexCount' = e.vertexCount
       /\ ready' = (IF ~firstDepthSortReceived THEN TRUE ELSE ready)
       /\ firstDepthSortReceived' = TRUE
  /\ outbox' = Tail(outbox)
  /\ applied' = applied + 1
  /\ task' = "reply"
  /\ UNCHANGED <<lastProj, positions, viewProj, vertexCount, lastVertexCount,
                 sortRunning, sortStrategy, lastSortStrategy, inbox, timers>>
  /\ UNCHANGED <<budget, nextViewId, inFlight, runCalls, lastRunView,
                 arrivedInFlight, changedSinceSort, sortLog>>
  /\ UNCHANGED <<renderVars, targetVars, errorVars, sceneVars, cameraVars, extVars>>

\* ------------------------------------------------------------ worker errors

\* runSort up to the allocation of its arrays, which raises: the branch of
\* the skip heuristic has run, nothing is posted and lastProj is not set
RunSortRaises(w, view, forceSort) ==
  LET c == [w EXCEPT !.runCalls = @ + 1, !.lastRunView = view.id]
      strategyChanged == w.lastSortStrategy # w.sortStrategy
  IN IF SkipCandidate(w, forceSort) THEN c
     ELSE [c EXCEPT
             !.lastSortStrategy = IF strategyChanged \/ forceSort THEN w.sortStrategy ELSE @,
             !.lastVertexCount = w.vertexCount]

\* whether a call of runSort gets as far as the allocation
Sorts(w, view, forceSort) ==
  /\ w.positions.loaded /\ view # NoView
  /\ ~(SkipCandidate(w, forceSort) /\ Near(w.lastProj.row, view.row))

\* onmessage, branch e.data.view, when runSort raises: throttledSort has set
\* sortRunning and never reaches setTimeout
OnViewRaises(w, m) ==
  LET a == [w EXCEPT !.viewProj = m.view, !.arrivedInFlight = @ \/ w.sortRunning]
  IN RunSortRaises([a EXCEPT !.sortRunning = TRUE, !.inFlight = @ + 1,
                             !.arrivedInFlight = FALSE], a.viewProj, FALSE)

\* onmessage, branch e.data.sortStrategy, when runSort raises
OnSortStrategyRaises(w, m) ==
  LET oldStrategy == w.sortStrategy
      a == [w EXCEPT !.sortStrategy = m.strategy,
                     !.lastSortStrategy = oldStrategy,
                     !.changedSinceSort = @ \/ (m.strategy # oldStrategy)]
  IN RunSortRaises([a EXCEPT !.sortRunning = TRUE, !.inFlight = @ + 1,
                             !.arrivedInFlight = FALSE], a.viewProj, TRUE)

\* the object of createStandardWorkerMessageHandler and its index buffer
HostState ==
  [indexBufferData |-> indexBufferData, objVertexCount |-> objVertexCount,
   ready |-> ready, firstDepthSortReceived |-> firstDepthSortReceived]

\* an error callback that takes the object out of the frame
OnWorkerErrorHides(h) == [h EXCEPT !.ready = FALSE, !.indexBufferData = <<>>]

\* onWorkerError: console.error, nothing else
OnWorkerError(h) == h

\* self.onmessage raises while sorting for the oldest message; the worker
\* stays alive and an error event goes to worker.onerror
WorkerRaises ==
  /\ inbox # <<>>
  /\ LET m == Head(inbox)
         a == [Worker EXCEPT !.viewProj = m.view]
     IN \/ /\ m.type = "view"
           /\ ThrottleGuard(a) /\ Sorts(a, m.view, FALSE)
           /\ SetWorker(OnViewRaises(Worker, m))
        \/ /\ m.type = "sortStrategy"
           /\ viewProj # NoView /\ positions.loaded /\ ~sortRunning
           /\ SetWorker(OnSortStrategyRaises(Worker, m))
  /\ inbox' = Tail(inbox)
  /\ pendingErrors' = pendingErrors + 1
  /\ task' = "raise"
  /\ UNCHANGED hostVars
  /\ UNCHANGED <<budget, nextViewId, applied>>
  /\ UNCHANGED <<reportedErrors, beforeError>>
  /\ UNCHANGED <<renderVars, targetVars, sceneVars, cameraVars, extVars>>

\* worker.onerror runs for the oldest error event
HostOnError ==
  /\ pendingErrors > 0
  /\ LET h == OnWorkerError(HostState) IN
       /\ indexBufferData' = h.indexBufferData
       /\ objVertexCount' = h.objVertexCount
       /\ ready' = h.ready
       /\ firstDepthSortReceived' = h.firstDepthSortReceived
  /\ beforeError' = HostState
  /\ pendingErrors' = pendingErrors - 1
  /\ reportedErrors' = reportedErrors + 1
  /\ task' = "error"
  /\ UNCHANGED workerVars
  /\ UNCHANGED <<budget, nextViewId, inFlight, runCalls, lastRunView,
                 arrivedInFlight, changedSinceSort, sortLog, applied>>
  /\ UNCHANGED <<renderVars, targetVars, sceneVars, cameraVars, extVars>>

InitError ==
  /\ pendingErrors = 0
  /\ reportedErrors = 0
  /\ beforeError = [indexBufferData |-> <<>>, objVertexCount |-> 0,
                    ready |-> FALSE, firstDepthSortReceived |-> FALSE]

\* the state after loadAndSetupSplatObject: the worker is created, the
\* texture message is posted, the object holds an empty index buffer
InitWith(textures, n) ==
  /\ lastProj = NoView
  /\ positions = [loaded |-> FALSE, pts |-> <<>>]
  /\ viewProj = NoView
  /\ vertexCount = 0
  /\ lastVertexCount = 0
  /\ sortRunning = FALSE
  /\ sortStrategy = "back-to-front"
  /\ lastSortStrategy = "back-to-front"
  /\ \E pts \in textures :
       /\ inbox = <<TextureMsg(pts)>>
       /\ objVertexCount = Len(pts)
  /\ timers = <<>>
  /\ outbox = <<>>
  /\ indexBufferData = <<>>
  /\ ready = FALSE
  /\ firstDepthSortReceived = FALSE
  /\ budget = n
  /\ nextViewId = 1
  /\ inFlight = 0
  /\ runCalls = 0
  /\ lastRunView = 0
  /\ arrivedInFlight = FALSE
  /\ changedSinceSort = FALSE
  /\ sortLog = <<>>
  /\ applied = 0
  /\ task = "init"


\* ----------------------------------------------------- the render pipeline
\* HoloRP as HoloEngineRuntime constructs it: splat, 3DGS, mesh and lines
\* programs are present, initAxisGrid has run and enableAxisGrid keeps its
\* default; render is called with the runtime's onUpdateWorker callback.

Obj(id, type, rdy, n, wk) ==
  [id |-> id, renderType |-> type, ready |-> rdy, buffers |-> TRUE, count |-> n,
   worker |-> wk, sortStrategy |-> "back-to-front"]

\* a scene with one object of each render type; splat objects are not ready
\* until their worker has delivered a first depth index
SceneMixed ==
  << Obj("m", "mesh", TRUE, 3, FALSE), Obj("a", "4dgs", FALSE, 2, TRUE),
     Obj("b", "3dgs", FALSE, 2, TRUE), Obj("l", "lines", TRUE, 2, FALSE),
     \* a splat object loaded without a worker, a mesh whose buffers were
     \* released, a lines object of a single point
     Obj("c", "4dgs", TRUE, 2, FALSE),
     [Obj("n", "mesh", TRUE, 0, FALSE) EXCEPT !.buffers = FALSE],
     Obj("k", "lines", TRUE, 1, FALSE) >>

\* the objectOrder argument of render: none, or the hierarchy order of the scene
ObjectOrders == { <<>>, <<"l", "c", "b", "gone", "a">> }

\* the sets of objects whose draw calls raise during one frame
RaisingSets == { {}, {"m"}, {"a"}, {"l"} }

\* the view matrices the camera controller hands to setViewMatrix
ViewMatrices == {1, 2}

\* the sizes the canvas is laid out at (0: hidden)
CanvasSizes == {0, 1, 2}

\* the viewport size glLayer.getViewport reports for an eye
XRViewportSize == 1

\* a readiness test that looks at the ready flag alone
IsReadyFlagOnly(o) == o.ready

\* RenderableObject.isReady
IsReady(o) ==
  IF o.renderType \in {"4dgs", "3dgs", "mesh"}
    THEN o.ready /\ o.buffers /\ o.count > 0
  ELSE IF o.renderType = "lines"
    THEN o.ready /\ o.buffers /\ o.count >= 2
  ELSE FALSE

Is4DGS(o) == o.renderType = "4dgs"
Is3DGS(o) == o.renderType = "3dgs"
IsMesh(o) == o.renderType = "mesh"
IsLines(o) == o.renderType = "lines"

\* what render does, in order: a message posted to a worker ("post"), a draw
\* call issued ("draw"), a draw that raised inside a try block ("caught"),
\* an exception nothing catches ("throw")
Ev(kind, id, v, pass, st) ==
  [kind |-> kind, obj |-> id, view |-> v, pass |-> pass, stencil |-> st]

\* the objects in the order render iterates them
RECURSIVE Pick(_, _)
Pick(objs, ids) ==
  IF ids = <<>> THEN <<>>
  ELSE SelectSeq(objs, LAMBDA o : o.id = Head(ids)) \o Pick(objs, Tail(ids))

\* the objects in insertion order whatever objectOrder says
OrderObjectsInsertion(objs, order) == objs

OrderObjects(objs, order) ==
  Pick(objs, order)
    \o SelectSeq(objs, LAMBDA o : \A i \in DOMAIN order : order[i] # o.id)

\* _renderMesh
RenderMesh(o, v, raising) ==
  IF ~IsReady(o) THEN <<>>
  ELSE << Ev(IF o.id \in raising THEN "caught" ELSE "draw", o.id, v, "mesh", 0) >>

\* _renderSplat: the worker update comes first and is outside the try block
RenderSplat(o, v, pass, st, hook, raising) ==
  (IF hook /\ o.worker
     THEN << Ev("post", o.id, v, "sortStrategy", st), Ev("post", o.id, v, "view", st) >>
     ELSE <<>>)
  \o (IF ~IsReady(o) THEN <<>>
      ELSE << Ev(IF o.id \in raising THEN "caught" ELSE "draw", o.id, v, pass, st) >>)

\* the depth-only call ahead of the blended one
SplatPassesDepthFirst == <<"depth", "color">>

\* the two _renderSplat calls made for an object, in order: "color" is the call
\* with depthWriteOnly = 0 and depthMask(false), "depth" the call with
\* depthWriteOnly = 1 and depthMask(true)
SplatPasses == <<"color", "depth">>

\* _renderGSObjects: stencil value i for the i-th object of the group, a call
\* with depthWriteOnly = 0 and depthMask(false), then one with
\* depthWriteOnly = 1 and depthMask(true)
RECURSIVE RenderGSObjects(_, _, _, _, _)
RenderGSObjects(group, i, v, hook, raising) ==
  IF i > Len(group) THEN <<>>
  ELSE RenderSplat(group[i], v, SplatPasses[1], i, hook, raising)
       \o RenderSplat(group[i], v, SplatPasses[2], i, hook, raising)
       \o RenderGSObjects(group, i + 1, v, hook, raising)

RECURSIVE RenderMeshes(_, _, _)
RenderMeshes(group, v, raising) ==
  IF group = <<>> THEN <<>>
  ELSE RenderMesh(Head(group), v, raising) \o RenderMeshes(Tail(group), v, raising)

\* _renderLines: no try block around the draw calls
RECURSIVE RenderLines(_, _, _)
RenderLines(group, v, raising) ==
  IF group = <<>> THEN <<>>
  ELSE (IF ~IsReady(Head(group)) THEN <<>>
        ELSE << Ev(IF Head(group).id \in raising THEN "throw" ELSE "draw",
                   Head(group).id, v, "lines", 0) >>)
       \o RenderLines(Tail(group), v, raising)

\* the loop body with the lines pass ahead of the splat groups
RenderViewLinesFirst(objs, v, hook, raising) ==
  RenderMeshes(SelectSeq(objs, IsMesh), v, raising)
  \o RenderLines(SelectSeq(objs, IsLines), v, raising)
  \o RenderGSObjects(SelectSeq(objs, Is4DGS), 1, v, hook, raising)
  \o RenderGSObjects(SelectSeq(objs, Is3DGS), 1, v, hook, raising)
  \o (IF v = 1 THEN << Ev("draw", "grid", v, "grid", 0) >> ELSE <<>>)

\* the body of the loop over the views, for view number v
RenderView(objs, v, hook, raising) ==
  RenderMeshes(SelectSeq(objs, IsMesh), v, raising)
  \o RenderGSObjects(SelectSeq(objs, Is4DGS), 1, v, hook, raising)
  \o RenderGSObjects(SelectSeq(objs, Is3DGS), 1, v, hook, raising)
  \o RenderLines(SelectSeq(objs, IsLines), v, raising)
  \o (IF v = 1 THEN << Ev("draw", "grid", v, "grid", 0) >> ELSE <<>>)

RECURSIVE RenderViews(_, _, _, _, _)
RenderViews(objs, v, n, hook, raising) ==
  IF v > n THEN <<>>
  ELSE RenderView(objs, v, hook, raising) \o RenderViews(objs, v + 1, n, hook, raising)

\* the events up to and including the first exception nothing catches
RECURSIVE UntilThrow(_)
UntilThrow(evs) ==
  IF evs = <<>> THEN <<>>
  ELSE IF Head(evs).kind = "throw" THEN << Head(evs) >>
  ELSE << Head(evs) >> \o UntilThrow(Tail(evs))

\* HoloRP.render(renderTarget, null, onUpdateWorker, frame, objectOrder);
\* in.fboComplete is what gl.checkFramebufferStatus answers, in.raising the
\* objects whose draw calls raise
RenderFrame(in) ==
  LET begun == IF targetKind = "canvas" THEN canvasSize # 0 ELSE in.frame
      size == IF targetKind = "canvas" THEN canvasSize ELSE XRViewportSize
      wantDV == showDepthVisualization /\ dvRenderer
      setup == wantDV /\ ~(dvSize = size /\ dvFramebuffer)
      fb == IF setup THEN in.fboComplete ELSE dvFramebuffer
      useDV == wantDV /\ fb
      viewOk == targetKind = "xr" \/ viewMatrix # 0
      nviews == IF targetKind = "canvas" THEN 1 ELSE 2
      body == IF viewOk
                THEN RenderViews(OrderObjects(objects, in.order), 1, nviews, in.hook, in.raising)
                ELSE <<>>
      all == IF setup /\ ~in.fboComplete
               THEN << Ev("throw", "setupFramebuffer", 0, "depthVis", 0) >>
               ELSE body \o (IF useDV THEN << Ev("draw", "depthVis", 0, "depthVis", 0) >> ELSE <<>>)
      log == UntilThrow(all)
      thrown == \E i \in DOMAIN log : log[i].kind = "throw"
  IN IF ~begun
       THEN [began |-> FALSE, log |-> <<>>, threw |-> FALSE, ended |-> FALSE,
             dvFramebuffer |-> dvFramebuffer, dvSize |-> dvSize]
       ELSE [began |-> TRUE, log |-> log, threw |-> thrown, ended |-> ~thrown,
             dvFramebuffer |-> fb,
             dvSize |-> IF setup THEN (IF in.fboComplete THEN size ELSE 0) ELSE dvSize]

\* what a call of render on a canvas is given: the camera, the objects, the
\* canvas (an XR frame takes its cameras from the viewer pose instead)
Snapshot == [viewMatrix |-> viewMatrix, objects |-> objects, canvasSize |-> canvasSize]
NoSnapshot == [viewMatrix |-> 0, objects |-> <<>>, canvasSize |-> 0]

\* one frame of the render loop
RenderCall ==
  /\ frameNo < MaxFrames
  /\ \E raising \in RaisingSets, fboComplete \in BOOLEAN,
        frame \in (IF targetKind = "xr" THEN BOOLEAN ELSE {FALSE}),
        order \in ObjectOrders :
       \E r \in { RenderFrame([hook |-> TRUE, frame |-> frame, fboComplete |-> fboComplete,
                               raising |-> raising, order |-> order]) } :
          /\ frameLog' = r.log
          /\ threw' = r.threw
          /\ ended' = r.ended
          /\ dvFramebuffer' = r.dvFramebuffer
          /\ dvSize' = r.dvSize
          /\ began' = r.began
          /\ lastOrder' = order
  /\ frameNo' = frameNo + 1
  /\ sameRender' = (frameNo >= 1 /\ targetKind = "canvas" /\ Snapshot = curRender)
  /\ curRender' = Snapshot
  /\ UNCHANGED <<objects, viewMatrix, showDepthVisualization, dvRenderer, targetKind, canvasSize>>
  /\ UNCHANGED <<workerVars, hostVars, targetVars, errorVars, sceneVars, cameraVars, extVars>>
  /\ UNCHANGED historyVars

\* HoloRP.setViewMatrix with the camera's view matrix
SetViewMatrix ==
  /\ \E v \in ViewMatrices : viewMatrix' = v
  /\ UNCHANGED <<objects, showDepthVisualization, dvRenderer, dvFramebuffer, dvSize,
                 targetKind, canvasSize, frameLog, threw, ended, frameNo, curRender, sameRender,
                 began, lastOrder>>
  /\ UNCHANGED <<workerVars, hostVars, targetVars, errorVars, sceneVars, cameraVars, extVars>>
  /\ UNCHANGED historyVars

\* the first depth index of a splat object arrives: the handler sets ready
FirstDepthSort ==
  /\ \E i \in DOMAIN objects :
       /\ objects[i].worker /\ ~objects[i].ready
       /\ objects' = [objects EXCEPT ![i].ready = TRUE]
  /\ UNCHANGED <<viewMatrix, showDepthVisualization, dvRenderer, dvFramebuffer, dvSize,
                 targetKind, canvasSize, frameLog, threw, ended, frameNo, curRender, sameRender,
                 began, lastOrder>>
  /\ UNCHANGED <<workerVars, hostVars, targetVars, errorVars, sceneVars, cameraVars, extVars>>
  /\ UNCHANGED historyVars

\* HoloRP.setShowDepthVisualization; initOk is whether the renderer can be built
SetShowDepthVisualization ==
  /\ \E show \in BOOLEAN, initOk \in BOOLEAN :
       /\ show # showDepthVisualization
       /\ IF show /\ ~dvRenderer
            THEN /\ dvRenderer' = initOk
                 /\ showDepthVisualization' = initOk
            ELSE /\ dvRenderer' = dvRenderer
                 /\ showDepthVisualization' = show
  /\ UNCHANGED <<objects, viewMatrix, dvFramebuffer, dvSize,
                 targetKind, canvasSize, frameLog, threw, ended, frameNo, curRender, sameRender,
                 began, lastOrder>>
  /\ UNCHANGED <<workerVars, hostVars, targetVars, errorVars, sceneVars, cameraVars, extVars>>
  /\ UNCHANGED historyVars

\* the page lays the canvas out at another size (0 when it is hidden)
ResizeCanvas ==
  /\ targetKind = "canvas"
  /\ \E sz \in CanvasSizes : sz # canvasSize /\ canvasSize' = sz
  /\ UNCHANGED <<objects, viewMatrix, showDepthVisualization, dvRenderer, dvFramebuffer, dvSize,
                 targetKind, frameLog, threw, ended, frameNo, curRender, sameRender,
                 began, lastOrder>>
  /\ UNCHANGED <<workerVars, hostVars, targetVars, errorVars, sceneVars, cameraVars, extVars>>
  /\ UNCHANGED historyVars

\* the pipeline after construction, with the objects of a scene registered
InitRenderWith(scenes, kinds) ==
  /\ objects \in scenes
  /\ viewMatrix = 0
  /\ showDepthVisualization = FALSE
  /\ dvRenderer = FALSE
  /\ dvFramebuffer = FALSE
  /\ dvSize = 0
  /\ targetKind \in kinds
  /\ canvasSize = 1
  /\ frameLog = <<>>
  /\ threw = FALSE
  /\ ended = FALSE
  /\ frameNo = 0
  /\ curRender = NoSnapshot
  /\ sameRender = FALSE
  /\ began = FALSE
  /\ lastOrder = <<>>

\* ------------------------------------------------------ the render targets

\* a width and height of the canvas box, of its backing store, of the window
Dims == {0, 1, 2}

\* clientWidth || canvas.width || window.innerWidth
FirstNonZero(a, b, c) == IF a # 0 THEN a ELSE IF b # 0 THEN b ELSE c

\* what beginFrame can change: the fields of the target and the state of gl
TargetState ==
  [canvasBacking |-> canvasBacking, currentViewport |-> currentViewport,
   xrFrame |-> xrFrame, xrPose |-> xrPose, xrGlLayer |-> xrGlLayer,
   xrViews |-> xrViews, glState |-> glState]

\* the frames requestAnimationFrame of an XR session hands over: id 0 is no
\* frame; views is the number of views of the viewer pose, 0 when
\* getViewerPose returns null
XRFrames == {[id |-> 0, views |-> 0]} \cup [id : {1, 2}, views : {0, 1, 2}]

\* frame.getViewerPose returned null, or was never called
NoPose == [id |-> 0, views |-> 0]

\* a list holding a ViewInfo for the first view of the pose only
BuildViewsFirstOnly(frame) == [v \in 1..1 |-> [pose |-> frame.id, eye |-> v]]

\* the loop of WebXRRenderTarget.beginFrame: a ViewInfo for each view of the
\* viewer pose, in the order of the pose
BuildViews(frame) == [v \in 1..frame.views |-> [pose |-> frame.id, eye |-> v]]

\* CanvasRenderTarget.getViews: always the one currentView
CanvasGetViews == <<[viewport |-> currentViewport]>>

\* WebXRRenderTarget.getViews
XRGetViews == xrViews

\* CanvasRenderTarget.beginFrame
CanvasBeginFrame ==
  /\ targetKind = "canvas"
  /\ LET canvasWidth == FirstNonZero(canvasClient[1], canvasBacking[1], windowInner[1])
         canvasHeight == FirstNonZero(canvasClient[2], canvasBacking[2], windowInner[2])
         ok == ~(canvasWidth = 0 \/ canvasHeight = 0)
     IN /\ canvasBacking' = IF canvasBacking[1] # canvasWidth \/ canvasBacking[2] # canvasHeight
                              THEN <<canvasWidth, canvasHeight>>
                              ELSE canvasBacking
        /\ glState' = IF ok
                        THEN [framebuffer |-> "default", viewport |-> <<canvasWidth, canvasHeight>>,
                              cleared |-> TRUE]
                        ELSE glState
        /\ currentViewport' = IF ok THEN <<canvasWidth, canvasHeight>> ELSE currentViewport
        /\ beginResult' = IF ok THEN "ok" ELSE "failed"
  /\ beforeBegin' = TargetState
  /\ UNCHANGED <<canvasClient, windowInner, xrFrame, xrPose, xrGlLayer, xrViews>>
  /\ UNCHANGED <<workerVars, hostVars, historyVars, renderVars, errorVars,
               sceneVars, cameraVars, extVars>>

\* WebXRRenderTarget.beginFrame(frame); baseLayer is
\* session.renderState.baseLayer at the time of the call
XRBeginFrame ==
  /\ targetKind = "xr"
  /\ \E frame \in XRFrames, baseLayer \in BOOLEAN :
       IF frame.id = 0
         THEN /\ beginResult' = "failed"
              /\ UNCHANGED <<xrFrame, xrPose, xrGlLayer, xrViews, glState>>
       ELSE IF frame.views = 0
         THEN /\ xrFrame' = frame.id
              /\ xrPose' = NoPose
              /\ beginResult' = "failed"
              /\ UNCHANGED <<xrGlLayer, xrViews, glState>>
       ELSE IF ~baseLayer
         THEN /\ xrFrame' = frame.id
              /\ xrPose' = [id |-> frame.id, views |-> frame.views]
              /\ xrGlLayer' = FALSE
              /\ beginResult' = "failed"
              /\ UNCHANGED <<xrViews, glState>>
       ELSE /\ xrFrame' = frame.id
            /\ xrPose' = [id |-> frame.id, views |-> frame.views]
            /\ xrGlLayer' = TRUE
            /\ glState' = [framebuffer |-> "xr", viewport |-> glState.viewport, cleared |-> TRUE]
            /\ xrViews' = BuildViews(frame)
            /\ beginResult' = "ok"
  /\ beforeBegin' = TargetState
  /\ UNCHANGED <<canvasClient, windowInner, canvasBacking, currentViewport>>
  /\ UNCHANGED <<workerVars, hostVars, historyVars, renderVars, errorVars,
               sceneVars, cameraVars, extVars>>

\* the page lays the canvas out again, or the window is resized
Layout ==
  /\ targetKind = "canvas"
  /\ \E c \in Dims \X Dims, w \in {<<0, 0>>, <<2, 2>>} :
       /\ <<c, w>> # <<canvasClient, windowInner>>
       /\ canvasClient' = c
       /\ windowInner' = w
  /\ UNCHANGED <<canvasBacking, currentViewport, xrFrame, xrPose, xrGlLayer, xrViews,
                 glState, beginResult, beforeBegin>>
  /\ UNCHANGED <<workerVars, hostVars, historyVars, renderVars, errorVars,
               sceneVars, cameraVars, extVars>>

\* the rest of the frame draws into an offscreen framebuffer or sets viewports
DrawFrame ==
  /\ beginResult = "ok"
  /\ \E fb \in {"default", "xr", "offscreen"} :
       /\ fb # "xr" \/ targetKind = "xr"
       /\ glState' = [glState EXCEPT !.framebuffer = fb, !.cleared = FALSE]
  /\ UNCHANGED <<canvasClient, windowInner, canvasBacking, currentViewport, xrFrame, xrPose,
                 xrGlLayer, xrViews, beginResult, beforeBegin>>
  /\ UNCHANGED <<workerVars, hostVars, historyVars, renderVars, errorVars,
               sceneVars, cameraVars, extVars>>

\* the targets after construction; the canvas element has its default size
InitTarget ==
  /\ canvasClient = <<1, 1>>
  /\ windowInner = <<2, 2>>
  /\ canvasBacking = <<1, 1>>
  /\ currentViewport = <<0, 0>>
  /\ xrFrame = 0
  /\ xrPose = NoPose
  /\ xrGlLayer = FALSE
  /\ xrViews = <<>>
  /\ glState = [framebuffer |-> "default", viewport |-> <<0, 0>>, cleared |-> FALSE]
  /\ beginResult = "none"
  /\ beforeBegin = TargetState

\* ---------------------------------------------------------------- the scene

SceneIds == {"a", "b", "c"}

\* the SplatObject with this id in objectList, as a set of at most one index
IndexOf(id) == {i \in DOMAIN objectList : objectList[i].id = id}

\* the last operation was no moveObjectUp or moveObjectDown that returned true
NoMove == [op |-> "none", id |-> "", from |-> 0]

\* no entry of the objects Map for an id
NoObject == 0

\* a splice that leaves the list as it is
SpliceKeeps(list, uid) == list

\* objectList.indexOf(obj) and objectList.splice(index, 1): the object is
\* found by identity
Splice(list, uid) == SelectSeq(list, LAMBDA o : o.uid # uid)

\* the workers of the object uid that terminate() stops
WorkersOf(list, uid) == {list[i].uid : i \in {k \in DOMAIN list : list[k].uid = uid /\ list[k].worker}}

\* SceneManager.addObject: an object of the same id is replaced
SceneAddObject ==
  /\ created < MaxObjects
  /\ \E id \in SceneIds :
       LET old == objectsMap[id]
           obj == [id |-> id, uid |-> created + 1, worker |-> FALSE, loaded |-> FALSE]
       IN /\ objectList' = Append(IF old # NoObject THEN Splice(objectList, old) ELSE objectList,
                                  obj)
          /\ liveWorkers' = IF old # NoObject THEN liveWorkers \ WorkersOf(objectList, old)
                            ELSE liveWorkers
          /\ objectsMap' = [objectsMap EXCEPT ![id] = obj.uid]
  /\ created' = created + 1
  /\ UNCHANGED <<liveGpu, pipelineIds>>
  /\ moved' = NoMove
  /\ UNCHANGED <<workerVars, hostVars, historyVars, renderVars, targetVars, errorVars, cameraVars, extVars>>

\* the runtime loads an object: loadAndSetupSplatObject creates its texture,
\* index buffer and worker, then the object is synced to the pipeline
SceneLoadObject ==
  /\ \E i \in DOMAIN objectList :
       /\ ~objectList[i].loaded
       /\ objectList' = [objectList EXCEPT ![i].loaded = TRUE, ![i].worker = TRUE]
       /\ liveWorkers' = liveWorkers \cup {objectList[i].uid}
       /\ liveGpu' = liveGpu \cup {objectList[i].uid}
       /\ pipelineIds' = pipelineIds \cup {objectList[i].id}
  /\ UNCHANGED <<created, objectsMap>>
  /\ moved' = NoMove
  /\ UNCHANGED <<workerVars, hostVars, historyVars, renderVars, targetVars, errorVars, cameraVars, extVars>>

\* SceneManager.removeObject
RemoveFromScene(list, map, workers, id) ==
  IF map[id] = NoObject
    THEN [objectList |-> list, objectsMap |-> map, liveWorkers |-> workers]
    ELSE [objectList |-> Splice(list, map[id]),
          objectsMap |-> [map EXCEPT ![id] = NoObject],
          liveWorkers |-> workers \ WorkersOf(list, map[id])]

SceneRemoveObject ==
  /\ \E id \in SceneIds :
       LET r == RemoveFromScene(objectList, objectsMap, liveWorkers, id)
       IN /\ objectsMap[id] # NoObject
          /\ objectList' = r.objectList
          /\ objectsMap' = r.objectsMap
          /\ liveWorkers' = r.liveWorkers
  /\ UNCHANGED <<liveGpu, pipelineIds, created>>
  /\ moved' = NoMove
  /\ UNCHANGED <<workerVars, hostVars, historyVars, renderVars, targetVars, errorVars, cameraVars, extVars>>

\* clearAll: removeObject for the id of every object of a copy of the list
RECURSIVE ClearAll(_, _)
ClearAll(sm, all) ==
  IF all = <<>> THEN sm
  ELSE ClearAll(RemoveFromScene(sm.objectList, sm.objectsMap, sm.liveWorkers, Head(all).id),
                Tail(all))

\* SceneManager.clearAll
SceneClearAll ==
  /\ objectList # <<>>
  /\ LET r == ClearAll([objectList |-> objectList, objectsMap |-> objectsMap,
                        liveWorkers |-> liveWorkers], objectList)
     IN /\ objectList' = r.objectList
        /\ objectsMap' = r.objectsMap
        /\ liveWorkers' = r.liveWorkers
  /\ UNCHANGED <<liveGpu, pipelineIds, created>>
  /\ moved' = NoMove
  /\ UNCHANGED <<workerVars, hostVars, historyVars, renderVars, targetVars, errorVars, cameraVars, extVars>>

\* objectList.findIndex(obj => obj.id === id), 0 for -1
FindIndex(list, id) ==
  IF \E i \in DOMAIN list : list[i].id = id
    THEN CHOOSE i \in DOMAIN list : list[i].id = id /\ \A j \in 1..(i - 1) : list[j].id # id
    ELSE 0

\* the entries i and j of the list exchanged
Swap(list, i, j) == [list EXCEPT ![i] = list[j], ![j] = list[i]]

\* SceneManager.moveObjectUp: false, and no change, for an unknown id and for
\* the first object
SceneMoveObjectUp ==
  /\ \E id \in SceneIds :
       LET index == FindIndex(objectList, id)
       IN /\ ~(index = 0 \/ index = 1)
          /\ objectList' = Swap(objectList, index, index - 1)
          /\ moved' = [op |-> "up", id |-> id, from |-> index]
  /\ UNCHANGED <<objectsMap, liveWorkers, liveGpu, pipelineIds, created>>
  /\ UNCHANGED <<workerVars, hostVars, historyVars, renderVars, targetVars, errorVars, cameraVars, extVars>>

\* SceneManager.moveObjectDown: false, and no change, for an unknown id and
\* for the last object
SceneMoveObjectDown ==
  /\ \E id \in SceneIds :
       LET index == FindIndex(objectList, id)
       IN /\ ~(index = 0 \/ index = Len(objectList))
          /\ objectList' = Swap(objectList, index, index + 1)
          /\ moved' = [op |-> "down", id |-> id, from |-> index]
  /\ UNCHANGED <<objectsMap, liveWorkers, liveGpu, pipelineIds, created>>
  /\ UNCHANGED <<workerVars, hostVars, historyVars, renderVars, targetVars, errorVars, cameraVars, extVars>>

\* the runtime's effect on a scene change: HoloRP.removeObject for every
\* pipeline object that is no longer in the scene
SyncPipeline ==
  /\ pipelineIds' = {id \in pipelineIds : IndexOf(id) # {}}
  /\ pipelineIds' # pipelineIds
  /\ UNCHANGED <<objectList, objectsMap, liveWorkers, liveGpu, created>>
  /\ moved' = NoMove
  /\ UNCHANGED <<workerVars, hostVars, historyVars, renderVars, targetVars, errorVars, cameraVars, extVars>>

\* HoloRP.dispose: the pipeline's own buffers go, the object map is cleared
PipelineDispose ==
  /\ pipelineIds # {}
  /\ pipelineIds' = {}
  /\ UNCHANGED <<objectList, objectsMap, liveWorkers, liveGpu, created>>
  /\ moved' = NoMove
  /\ UNCHANGED <<workerVars, hostVars, historyVars, renderVars, targetVars, errorVars, cameraVars, extVars>>

InitScene ==
  /\ objectList = <<>>
  /\ objectsMap = [id \in SceneIds |-> NoObject]
  /\ moved = NoMove
  /\ liveWorkers = {}
  /\ liveGpu = {}
  /\ pipelineIds = {}
  /\ created = 0

\* --------------------------------------------------------------- the camera

\* Math.PI / 2 and the 0.01 margin of the clamp, in 1/100 rad
HalfPi == 157
PitchMargin == 1

\* Math.max(-Math.PI / 2 + 0.01, Math.min(Math.PI / 2 - 0.01, value))
ClampPitch(value) ==
  LET hi == HalfPi - PitchMargin
      lo == -HalfPi + PitchMargin
      m == IF value < hi THEN value ELSE hi
  IN IF m > lo THEN m ELSE lo

\* the angles callers pass, the increments of rotate, the pitches asin
\* extracts from a rotation matrix
Angles == {-400, -157, 0, 157, 400}
Increments == {-400, -100, 100, 400}
ExtractedPitches == {-157, -90, 90, 157}

NoCamera == [exists |-> FALSE, yawRad |-> 0, pitchRad |-> 0]

\* new Camera(options): options.pitchRad ?? 0 is stored as given
NewCamera(yawRad, pitchRad) == [exists |-> TRUE, yawRad |-> yawRad, pitchRad |-> pitchRad]

\* new Camera(options) with or without angles in the options
CameraConstruct ==
  /\ \E y \in {0, 60}, p \in Angles : camera' = NewCamera(y, p)
  /\ UNCHANGED cloned
  /\ UNCHANGED <<workerVars, hostVars, historyVars, renderVars, targetVars, errorVars, sceneVars, extVars>>

\* Camera.fromPlainObject: angles taken from the object, or the pitch
\* extracted from its rotation with Math.asin, or the defaults
CameraFromPlainObject ==
  /\ \E kind \in {"angles", "rotation", "default"}, y \in {0, 60}, p \in Angles,
        e \in ExtractedPitches :
       camera' = IF kind = "angles" THEN NewCamera(y, p)
                 ELSE IF kind = "rotation" THEN NewCamera(0, e)
                 ELSE NewCamera(0, 0)
  /\ UNCHANGED cloned
  /\ UNCHANGED <<workerVars, hostVars, historyVars, renderVars, targetVars, errorVars, sceneVars, extVars>>

\* set pitchRad(value)
CameraSetPitchRad ==
  /\ camera.exists
  /\ \E value \in Angles : camera' = [camera EXCEPT !.pitchRad = ClampPitch(value)]
  /\ UNCHANGED cloned
  /\ UNCHANGED <<workerVars, hostVars, historyVars, renderVars, targetVars, errorVars, sceneVars, extVars>>

\* Camera.rotate(dYaw, dPitch)
Rotate(c, dYaw, dPitch) ==
  [c EXCEPT !.yawRad = @ + dYaw, !.pitchRad = ClampPitch(@ + dPitch)]

CameraRotate ==
  /\ camera.exists
  /\ \E dYaw \in {-60, 0, 60}, dPitch \in Increments :
       /\ camera.yawRad + dYaw \in (-MaxYaw)..MaxYaw
       /\ camera' = Rotate(camera, dYaw, dPitch)
  /\ UNCHANGED cloned
  /\ UNCHANGED <<workerVars, hostVars, historyVars, renderVars, targetVars, errorVars, sceneVars, extVars>>

\* Camera.clone
CameraClone ==
  /\ camera.exists
  /\ cloned' = NewCamera(camera.yawRad, camera.pitchRad)
  /\ UNCHANGED camera
  /\ UNCHANGED <<workerVars, hostVars, historyVars, renderVars, targetVars, errorVars, sceneVars, extVars>>

InitCamera ==
  /\ camera = NoCamera
  /\ cloned = NoCamera

\* --------------------------------------- the camera's projection attributes

\* every variable of the worker, host, render, target, scene and angle models
baseVars == <<workerVars, hostVars, historyVars, renderVars, targetVars, errorVars,
              sceneVars, cameraVars>>

\* null for targetVerticalFOV; the value a cleared focal length would hold
NoFov == 0
Cleared == 0

\* the values callers pass: focal lengths, fields of view in degrees, image
\* heights, lengths of the arrays given as vectors
Focals == {500, 1000}
Fovs == {45, 60}
Heights == {0, 1080}
VectorLens == {2, 3, 4}

NoOptics ==
  [exists |-> FALSE, fx |-> 1000, fy |-> 1000, targetVerticalFOV |-> NoFov, height |-> 1080,
   position |-> 3, forwardHorizontalRef |-> 3, worldUp |-> 3]

\* new Camera(options): every option is stored as given, an absent one gets
\* its default; the vectors are kept by their length
NewOptics(o) ==
  [exists |-> TRUE, fx |-> o.fx, fy |-> o.fy, targetVerticalFOV |-> o.targetVerticalFOV,
   height |-> o.height, position |-> o.position,
   forwardHorizontalRef |-> o.forwardHorizontalRef, worldUp |-> o.worldUp]

\* get fx / get fy: derived from targetVerticalFOV while it is set and the
\* height is positive, the stored value otherwise
FxGetter(c) ==
  IF c.targetVerticalFOV # NoFov /\ c.height > 0
    THEN [from |-> "fov", value |-> c.targetVerticalFOV]
    ELSE [from |-> "stored", value |-> c.fx]

FyGetter(c) ==
  IF c.targetVerticalFOV # NoFov /\ c.height > 0
    THEN [from |-> "fov", value |-> c.targetVerticalFOV]
    ELSE [from |-> "stored", value |-> c.fy]

\* the projection attributes a call found on the camera
Projection(c) == [fx |-> c.fx, fy |-> c.fy, targetVerticalFOV |-> c.targetVerticalFOV]

\* a fx setter that leaves targetVerticalFOV alone
SetFxKeepsFov(c, value) == [c EXCEPT !.fx = value]

\* set fx(value)
SetFx(c, value) == [c EXCEPT !.fx = value, !.targetVerticalFOV = NoFov]

\* set fy(value)
SetFy(c, value) == [c EXCEPT !.fy = value, !.targetVerticalFOV = NoFov]

\* set targetVerticalFOV(value)
SetTargetVerticalFOV(c, value) == [c EXCEPT !.targetVerticalFOV = value]

\* set position / forwardHorizontalRef / worldUp: an array of another length
\* than 3 is refused with an exception and the camera keeps its vector
SetVector(c, field, len) == IF len # 3 THEN c ELSE [c EXCEPT ![field] = len]

\* new Camera(options), also as Camera.fromPlainObject calls it
OpticsConstruct ==
  /\ \E fx \in Focals, fov \in Fovs \cup {NoFov}, h \in Heights,
        pl \in VectorLens, rl \in {3, 4}, ul \in {2, 3} :
       optics' = NewOptics([fx |-> fx, fy |-> 1000, targetVerticalFOV |-> fov, height |-> h,
                            position |-> pl, forwardHorizontalRef |-> rl, worldUp |-> ul])
  /\ cameraOp' = [op |-> "new", before |-> Projection(NoOptics)]
  /\ UNCHANGED <<baseVars, glVars, loadVars>>

OpticsSetFocal ==
  /\ optics.exists
  /\ \E value \in Focals :
       \/ optics' = SetFx(optics, value) /\ cameraOp' = [op |-> "setFx", before |-> Projection(optics)]
       \/ optics' = SetFy(optics, value) /\ cameraOp' = [op |-> "setFy", before |-> Projection(optics)]
  /\ UNCHANGED <<baseVars, glVars, loadVars>>

OpticsSetFov ==
  /\ optics.exists
  /\ \E value \in Fovs \cup {NoFov} : optics' = SetTargetVerticalFOV(optics, value)
  /\ cameraOp' = [op |-> "setFov", before |-> Projection(optics)]
  /\ UNCHANGED <<baseVars, glVars, loadVars>>

\* set height(value)
OpticsSetHeight ==
  /\ optics.exists
  /\ \E value \in Heights : optics' = [optics EXCEPT !.height = value]
  /\ cameraOp' = [op |-> "setHeight", before |-> Projection(optics)]
  /\ UNCHANGED <<baseVars, glVars, loadVars>>

OpticsSetVector ==
  /\ optics.exists
  /\ \E field \in {"position", "forwardHorizontalRef", "worldUp"}, len \in VectorLens :
       optics' = SetVector(optics, field, len)
  /\ cameraOp' = [op |-> "setVector", before |-> Projection(optics)]
  /\ UNCHANGED <<baseVars, glVars, loadVars>>

InitOptics ==
  /\ optics = NoOptics
  /\ cameraOp = [op |-> "none", before |-> Projection(NoOptics)]

\* ------------------------------------------------- the WebGL context state

\* gl.blendFunc(src, dst) sets the colour and the alpha factors alike
BlendFunc(src, dst) == [srcRGB |-> src, dstRGB |-> dst, srcAlpha |-> src, dstAlpha |-> dst]

\* gl.blendFuncSeparate(ONE, ONE_MINUS_SRC_ALPHA, ONE, ONE_MINUS_SRC_ALPHA)
Premultiplied == BlendFunc("ONE", "ONE_MINUS_SRC_ALPHA")

\* a context as getContext returns it
DefaultContext ==
  [program |-> "none", depthTest |-> FALSE, depthFunc |-> "LESS", depthMask |-> TRUE,
   blend |-> FALSE, blendFunc |-> BlendFunc("ONE", "ZERO"), lineWidth |-> 1]

\* the state renderAxisGrid saves on entry
Saved(ctx) ==
  [program |-> ctx.program, depthTest |-> ctx.depthTest, depthMask |-> ctx.depthMask,
   blend |-> ctx.blend, blendFunc |-> ctx.blendFunc, lineWidth |-> ctx.lineWidth]

\* renderAxisGrid up to its last draw call: the grid with line width 1, the
\* axes with line width 3
AxisGridDraw(ctx) ==
  [ctx EXCEPT !.program = "axisGrid", !.depthTest = TRUE, !.depthFunc = "LEQUAL",
              !.depthMask = TRUE, !.blend = TRUE,
              !.blendFunc = BlendFunc("SRC_ALPHA", "ONE_MINUS_SRC_ALPHA"),
              !.lineWidth = 3]

\* a restore that leaves blending as the overlay set it
AxisGridRestoreKeepsBlend(ctx, prev) ==
  [ctx EXCEPT !.program = prev.program,
              !.depthTest = IF ~prev.depthTest THEN FALSE ELSE @,
              !.depthMask = prev.depthMask,
              !.lineWidth = prev.lineWidth]

\* renderAxisGrid after its last draw call
AxisGridRestore(ctx, prev) ==
  [ctx EXCEPT !.program = prev.program,
              !.depthTest = IF ~prev.depthTest THEN FALSE ELSE @,
              !.depthMask = prev.depthMask,
              !.blend = IF ~prev.blend THEN FALSE ELSE @,
              !.blendFunc = BlendFunc(prev.blendFunc.srcRGB, prev.blendFunc.dstRGB),
              !.lineWidth = prev.lineWidth]

\* renderAxisGrid
RenderAxisGrid(ctx) == AxisGridRestore(AxisGridDraw(ctx), Saved(ctx))

\* useWebGL, after the context is created
GlSetup ==
  /\ glCtx' = [glCtx EXCEPT !.depthTest = FALSE, !.blend = TRUE, !.blendFunc = Premultiplied]
  /\ glOp' = [op |-> "setup", before |-> Saved(glCtx)]
  /\ UNCHANGED <<baseVars, opticsVars, loadVars>>

\* render, before the views: the splat program is made current
GlRenderStart ==
  /\ glCtx' = [glCtx EXCEPT !.program = "splat4d"]
  /\ glOp' = [op |-> "start", before |-> Saved(glCtx)]
  /\ UNCHANGED <<baseVars, opticsVars, loadVars>>

\* render, the mesh pass of a view
GlMeshPass ==
  /\ glCtx' = [glCtx EXCEPT !.depthTest = TRUE, !.blend = FALSE, !.program = "mesh"]
  /\ glOp' = [op |-> "mesh", before |-> Saved(glCtx)]
  /\ UNCHANGED <<baseVars, opticsVars, loadVars>>

\* _renderGSObjects with the program of the group; the depth-only call of the
\* last object leaves depth writes on
GlSplatPass ==
  /\ \E program \in {"splat4d", "splat3d"} :
       glCtx' = [glCtx EXCEPT !.depthTest = TRUE, !.depthFunc = "LEQUAL", !.depthMask = TRUE,
                             !.blend = TRUE, !.blendFunc = Premultiplied,
                             !.program = program]
  /\ glOp' = [op |-> "splat", before |-> Saved(glCtx)]
  /\ UNCHANGED <<baseVars, opticsVars, loadVars>>

\* _renderLines
GlLinesPass ==
  /\ glCtx' = [glCtx EXCEPT !.program = "lines", !.depthTest = TRUE, !.depthFunc = "LEQUAL",
                           !.depthMask = TRUE, !.blend = FALSE]
  /\ glOp' = [op |-> "lines", before |-> Saved(glCtx)]
  /\ UNCHANGED <<baseVars, opticsVars, loadVars>>

\* DepthVisualizationRenderer.render: the full-screen pass
GlDepthVisualization ==
  /\ glCtx' = [glCtx EXCEPT !.program = "depthVis", !.depthTest = FALSE, !.blend = FALSE]
  /\ glOp' = [op |-> "depthVis", before |-> Saved(glCtx)]
  /\ UNCHANGED <<baseVars, opticsVars, loadVars>>

\* render, the debug overlay of the first view
GlAxisGrid ==
  /\ glCtx' = RenderAxisGrid(glCtx)
  /\ glOp' = [op |-> "grid", before |-> Saved(glCtx)]
  /\ UNCHANGED <<baseVars, opticsVars, loadVars>>

InitGl ==
  /\ glCtx = DefaultContext
  /\ glOp = [op |-> "none", before |-> Saved(DefaultContext)]

\* ------------------------------------------- the runtime's loading of objects

\* the objects a host puts into the scene: p is a 4DGS object, q a 3DGS one
LoadIds == {"p", "q"}
KindOf(o) == IF o = "p" THEN "4dgs" ELSE "3dgs"

\* the state the loading code reads and writes, as one record
LoadState ==
  [obj |-> rtObj, loading |-> loadingRef, workerReady |-> workerReadyRef,
   render |-> renderObjs, sorts |-> firstSorts, timer |-> loadCompleteTimer]

\* the three conditions of checkAllLoaded
Conditions(st) ==
  [noLoading |-> st.loading = {},
   allLoaded |-> \A i \in DOMAIN rtList : st.obj[rtList[i]].loaded,
   allWorkersReady |->
     \A i \in DOMAIN rtList :
       /\ st.obj[rtList[i]].loaded
       /\ st.obj[rtList[i]].worker => st.workerReady[rtList[i]] = "true"]

\* checkAllLoaded: starts, or restarts, the 100 ms timeout
CheckAllLoaded(st) ==
  IF Conditions(st).noLoading /\ Conditions(st).allLoaded /\ Conditions(st).allWorkersReady
    THEN [st EXCEPT !.timer = TRUE]
    ELSE st

\* syncObjectToPipeline
SyncObjectToPipeline(st, o) ==
  [st EXCEPT !.render[o] =
     [exists |-> TRUE,
      ready |-> IF st.obj[o].loaded
                  THEN (IF st.obj[o].worker THEN st.workerReady[o] = "true" ELSE TRUE)
                  ELSE FALSE]]

\* the for loop of loadAllObjects from the idx-th object on, up to its next
\* await or to the check after the loop
RECURSIVE LoadLoop(_, _)
LoadLoop(st, idx) ==
  IF idx > Len(rtList)
    THEN [st |-> IF \A i \in DOMAIN rtList :
                      st.obj[rtList[i]].loaded \/ ~st.obj[rtList[i]].loading
                   THEN CheckAllLoaded(st) ELSE st,
          awaiting |-> "", idx |-> idx]
  ELSE IF st.obj[rtList[idx]].loaded \/ st.obj[rtList[idx]].loading
    THEN LoadLoop(st, idx + 1)
  ELSE [st |-> [st EXCEPT !.obj[rtList[idx]].loading = TRUE,
                          !.loading = @ \cup {rtList[idx]},
                          !.workerReady[rtList[idx]] = "false"],
        awaiting |-> rtList[idx], idx |-> idx + 1]

\* the file of o arrived: the worker is created and given the texture and the
\* view, the object is marked loaded and synchronised; the 3DGS branch ends
\* with checkAllLoaded
Loaded(st, o) ==
  LET a == [st EXCEPT !.obj[o] = [loaded |-> TRUE, loading |-> FALSE, worker |-> TRUE],
                      !.loading = @ \ {o},
                      !.sorts[o] = @ + 1]
      b == SyncObjectToPipeline(a, o)
  IN IF KindOf(o) = "3dgs" THEN CheckAllLoaded(b) ELSE b

\* the catch block
LoadFailed(st, o) ==
  CheckAllLoaded([st EXCEPT !.obj[o].loading = FALSE,
                            !.loading = @ \ {o},
                            !.workerReady[o] = "absent"])

\* onFirstDepthSort of the worker of o
OnFirstDepthSort(st, o) ==
  CheckAllLoaded([st EXCEPT !.workerReady[o] = "true",
                            !.render[o].ready =
                              IF KindOf(o) = "4dgs" /\ st.render[o].exists THEN TRUE ELSE @])

\* loadAllObjects on a changed sceneVersion, before its loop
RECURSIVE ResetForVersion(_, _)
ResetForVersion(st, idx) ==
  IF idx > Len(rtList) THEN
    [st EXCEPT !.loading = { o \in @ : st.obj[o].loaded }]
  ELSE
    LET o == rtList[idx] IN
    ResetForVersion(
      IF st.obj[o].loaded
        THEN (IF st.obj[o].worker
                THEN (IF st.workerReady[o] = "absent"
                        THEN [st EXCEPT !.workerReady[o] = "true",
                                        !.render[o].ready =
                                          IF st.render[o].exists THEN TRUE ELSE @]
                        ELSE st)
                ELSE [st EXCEPT !.workerReady[o] = "absent"])
        ELSE [st EXCEPT !.obj[o].loading = FALSE, !.workerReady[o] = "absent"],
      idx + 1)

\* the scene-sync effect: every object of the scene is synchronised
RECURSIVE SyncAll(_, _)
SyncAll(st, idx) ==
  IF idx > Len(rtList) THEN st
  ELSE SyncAll(SyncObjectToPipeline(st, rtList[idx]), idx + 1)

\* the variables take the values of a LoadState
Store(st) ==
  /\ rtObj' = st.obj
  /\ loadingRef' = st.loading
  /\ workerReadyRef' = st.workerReady
  /\ renderObjs' = st.render
  /\ firstSorts' = st.sorts
  /\ loadCompleteTimer' = st.timer

\* the host adds an object to the scene manager and raises sceneVersion
HostAddObject ==
  /\ \E o \in LoadIds :
       /\ \A i \in DOMAIN rtList : rtList[i] # o
       /\ rtList' = Append(rtList, o)
  /\ effectsPending' = TRUE
  /\ versionChanged' = TRUE
  /\ UNCHANGED <<rtObj, loadingRef, workerReadyRef, renderObjs, loadTasks, firstSorts,
                 loadCompleteTimer, loadComplete>>
  /\ UNCHANGED <<baseVars, opticsVars, glVars>>

\* the effects run for the current sceneVersion: the cleanup of the loading
\* effect clears the timeout, the scene-sync effect runs, loadAllObjects starts
RunEffects ==
  /\ effectsPending
  /\ LET cleaned == [LoadState EXCEPT !.timer = FALSE]
         synced == SyncAll(cleaned, 1)
         reset == IF versionChanged THEN ResetForVersion(synced, 1) ELSE synced
         run == LoadLoop(reset, 1)
     IN /\ Store(run.st)
        /\ loadTasks' = IF run.awaiting = "" THEN loadTasks
                        ELSE Append(loadTasks, [awaiting |-> run.awaiting, idx |-> run.idx])
  /\ effectsPending' = FALSE
  /\ versionChanged' = FALSE
  /\ UNCHANGED <<rtList, loadComplete>>
  /\ UNCHANGED <<baseVars, opticsVars, glVars>>

\* the await of a loadAllObjects call ends, with the file or with an exception
LoadResolves ==
  /\ \E t \in DOMAIN loadTasks, ok \in BOOLEAN :
       LET o == loadTasks[t].awaiting
           after == IF ok THEN Loaded(LoadState, o) ELSE LoadFailed(LoadState, o)
           run == LoadLoop(after, loadTasks[t].idx)
           rest == SubSeq(loadTasks, 1, t - 1) \o SubSeq(loadTasks, t + 1, Len(loadTasks))
       IN /\ Store(run.st)
          /\ loadTasks' = IF run.awaiting = "" THEN rest
                          ELSE Append(rest, [awaiting |-> run.awaiting, idx |-> run.idx])
  /\ UNCHANGED <<rtList, effectsPending, versionChanged, loadComplete>>
  /\ UNCHANGED <<baseVars, opticsVars, glVars>>

\* the first ordering of a worker of o reaches its message handler
WorkerFirstSort ==
  /\ \E o \in LoadIds :
       /\ firstSorts[o] > 0
       /\ Store(OnFirstDepthSort([LoadState EXCEPT !.sorts[o] = @ - 1], o))
  /\ UNCHANGED <<rtList, loadTasks, effectsPending, versionChanged, loadComplete>>
  /\ UNCHANGED <<baseVars, opticsVars, glVars>>

\* the timeout of checkAllLoaded fires: onLoadComplete is called
LoadCompleteTimeout ==
  /\ loadCompleteTimer
  /\ loadCompleteTimer' = FALSE
  /\ loadComplete' = [called |-> TRUE, found |-> Conditions(LoadState),
                      suspended |-> Len(loadTasks)]
  /\ UNCHANGED <<rtList, rtObj, loadingRef, workerReadyRef, renderObjs, loadTasks, firstSorts,
                 effectsPending, versionChanged>>
  /\ UNCHANGED <<baseVars, opticsVars, glVars>>

\* the component before its effects ran for the first time, on an empty scene
InitLoad ==
  /\ rtList = <<>>
  /\ rtObj = [o \in LoadIds |-> [loaded |-> FALSE, loading |-> FALSE, worker |-> FALSE]]
  /\ loadingRef = {}
  /\ workerReadyRef = [o \in LoadIds |-> "absent"]
  /\ renderObjs = [o \in LoadIds |-> [exists |-> FALSE, ready |-> FALSE]]
  /\ loadTasks = <<>>
  /\ firstSorts = [o \in LoadIds |-> 0]
  /\ loadCompleteTimer = FALSE
  /\ effectsPending = TRUE
  /\ versionChanged = FALSE
  /\ loadComplete = [called |-> FALSE,
                     found |-> [noLoading |-> TRUE, allLoaded |-> TRUE, allWorkersReady |-> TRUE],
                     suspended |-> 0]

InitExt == InitOptics /\ InitGl /\ InitLoad

vars == <<baseVars, extVars>>

Init == InitWith(ProtocolTextures, MaxMsgs) /\ InitRenderWith({<<>>}, {"canvas"}) /\ InitTarget /\ InitError /\ InitScene /\ InitCamera /\ InitExt

Next ==
  \/ HostPostView
  \/ HostPostSortStrategy
  \/ WorkerOnTexture
  \/ WorkerOnSortStrategy
  \/ WorkerOnView
  \/ WorkerTimer
  \/ HostOnMessage

Spec == Init /\ [][Next]_vars

InitSort == InitWith(SortTextures, MaxSortMsgs) /\ InitRenderWith({<<>>}, {"canvas"}) /\ InitTarget /\ InitError /\ InitScene /\ InitCamera /\ InitExt

SpecSort == InitSort /\ [][Next]_vars

\* the protocol with handlers that may raise
NextError ==
  \/ Next
  \/ WorkerRaises
  \/ HostOnError

SpecError == Init /\ [][NextError]_vars

InitRender == InitWith(ProtocolTextures, 0) /\ InitRenderWith({SceneMixed}, {"canvas", "xr"}) /\ InitTarget /\ InitError /\ InitScene /\ InitCamera /\ InitExt

NextRender ==
  \/ RenderCall
  \/ SetViewMatrix
  \/ FirstDepthSort
  \/ SetShowDepthVisualization
  \/ ResizeCanvas

SpecRender == InitRender /\ [][NextRender]_vars

InitTargets == InitWith(ProtocolTextures, 0) /\ InitRenderWith({<<>>}, {"canvas", "xr"}) /\ InitTarget /\ InitError /\ InitScene /\ InitCamera /\ InitExt

NextTarget ==
  \/ CanvasBeginFrame
  \/ XRBeginFrame
  \/ Layout
  \/ DrawFrame

SpecTarget == InitTargets /\ [][NextTarget]_vars

NextScene ==
  \/ SceneAddObject
  \/ SceneLoadObject
  \/ SceneRemoveObject
  \/ SceneClearAll
  \/ SceneMoveObjectUp
  \/ SceneMoveObjectDown
  \/ SyncPipeline
  \/ PipelineDispose

SpecScene == Init /\ [][NextScene]_vars

NextCamera ==
  \/ CameraConstruct
  \/ CameraFromPlainObject
  \/ CameraSetPitchRad
  \/ CameraRotate
  \/ CameraClone

SpecCamera == Init /\ [][NextCamera]_vars

NextOptics ==
  \/ OpticsConstruct
  \/ OpticsSetFocal
  \/ OpticsSetFov
  \/ OpticsSetHeight
  \/ OpticsSetVector

SpecOptics == Init /\ [][NextOptics]_vars

NextGrid ==
  \/ GlSetup
  \/ GlRenderStart
  \/ GlMeshPass
  \/ GlSplatPass
  \/ GlLinesPass
  \/ GlDepthVisualization
  \/ GlAxisGrid

SpecGrid == Init /\ [][NextGrid]_vars

NextLoad ==
  \/ HostAddObject
  \/ RunEffects
  \/ LoadResolves
  \/ WorkerFirstSort
  \/ LoadCompleteTimeout

SpecLoad == Init /\ [][NextLoad]_vars

\* the event loop runs every queued task: pending effects, settled promises,
\* worker messages and due timeouts; the host is free never to change the scene
SpecLoadFair ==
  /\ SpecLoad
  /\ WF_vars(RunEffects)
  /\ WF_vars(LoadResolves)
  /\ WF_vars(WorkerFirstSort)
  /\ WF_vars(LoadCompleteTimeout)

\* ------------------------------------------------------------------ claims

\* C1: at most one sort is in flight at any time: between the start of a
\* sort and the callback that marks it complete no second sort starts.
C1_OneSortInFlight ==
  /\ inFlight <= 1
  /\ Len(timers) <= 1
  /\ sortRunning <=> (inFlight = 1)

\* a view message was handled while a sort was in flight, and no sort started
C1_Witness == sortRunning /\ arrivedInFlight /\ inFlight = 1 /\ task = "view"

\* C2 (as claimed): when the callback that marks a sort complete runs and a
\* view message arrived during the flight, that step starts exactly one
\* follow-up sort, for the latest view received.
C2_FollowUpForLatestView ==
  [][(task' = "timer" /\ arrivedInFlight)
       => (runCalls' = runCalls + 1 /\ lastRunView' = viewProj.id)]_vars

\* C3 (as claimed): once nothing is left to run (no message, no timer, no
\* reply in transit), the ordering the host holds was computed for a view
\* within the skip threshold of the last view the worker received.
C3_LastViewWins ==
  (inbox = <<>> /\ timers = <<>> /\ outbox = <<>> /\ positions.loaded /\ viewProj # NoView)
    => (applied > 0 /\ Near(sortLog[applied].viewProj.row, viewProj.row))

\* C4: the index buffer of the object holds, whole, the result of the most
\* recently completed sort among those delivered; results are applied in the
\* order of completion, none is skipped and none is applied late.
C4_AppliedIsLatestCompleted ==
  /\ applied = Len(sortLog) - Len(outbox)
  /\ applied > 0 =>
       /\ indexBufferData = sortLog[applied].depthIndex
       /\ objVertexCount = sortLog[applied].vertexCount
  /\ \A i \in DOMAIN outbox :
       outbox[i].depthIndex = sortLog[applied + i].depthIndex

\* a later result with another ordering has replaced an earlier one
C4_Witness ==
  /\ applied >= 2
  /\ task = "reply"
  /\ sortLog[applied].depthIndex # sortLog[applied - 1].depthIndex
  /\ indexBufferData = sortLog[applied].depthIndex

IsPermutation(d, n) ==
  /\ Len(d) = n
  /\ \A k \in 0..(n - 1) : Cardinality({j \in DOMAIN d : d[j] = k}) = 1

\* C5 (as claimed): the depthIndex of every reply is a permutation of [0, N).
C5_Permutation ==
  \A i \in DOMAIN sortLog : IsPermutation(sortLog[i].depthIndex, sortLog[i].vertexCount)

\* the depth key of the point at place j of a reply
KeyAt(e, j) == DepthKey(e.viewProj.row, positions.pts[e.depthIndex[j] + 1])

\* C6 (as claimed): along the output order of every reply the depth key is
\* non-increasing for back-to-front and non-decreasing for front-to-back.
C6_Monotone ==
  \A i \in DOMAIN sortLog :
    LET e == sortLog[i] IN
      \A j \in 1..(Len(e.depthIndex) - 1) :
        /\ e.strategy = "back-to-front" => KeyAt(e, j) >= KeyAt(e, j + 1)
        /\ e.strategy = "front-to-back" => KeyAt(e, j) <= KeyAt(e, j + 1)

\* the reply posted last
LastSort == sortLog[Len(sortLog)]

C8_NearViewSkipped ==
  [][(task' \in {"view", "timer"} /\ lastProj # NoView /\ ~changedSinceSort
        /\ SqDist(lastProj.row, viewProj'.row) * 10000 < 65536)
       => (sortLog' = sortLog /\ outbox' = outbox /\ lastProj' = lastProj)]_vars

\* runSort was called for a new view within the threshold and skipped it
C8_Witness ==
  /\ task = "view"
  /\ lastProj # NoView /\ ~changedSinceSort
  /\ viewProj.id # lastProj.id
  /\ viewProj.row # lastProj.row
  /\ Near(lastProj.row, viewProj.row)
  /\ lastRunView = viewProj.id
  /\ runCalls > Len(sortLog)

PostsOf(log) == SelectSeq(log, LAMBDA e : e.kind = "post")

\* C9 (as claimed): a call of render given the same camera, objects and sort
\* strategies as the call before it posts nothing to any worker.
C9_NoDispatchOnSameCamera == sameRender => PostsOf(frameLog) = <<>>

\* C10 (as claimed): no call of render throws.
C10_RenderNeverThrows == ~threw

\* the views a frame on this target has
NumViews == IF targetKind = "canvas" THEN 1 ELSE 2

\* the last call of render reached the loop over the views
ViewsRan == \E i \in DOMAIN frameLog : frameLog[i].view >= 1

\* the last call of render issued a draw call for object id in view v
Drawn(id, v) ==
  \E i \in DOMAIN frameLog :
    /\ frameLog[i].obj = id /\ frameLog[i].view = v
    /\ frameLog[i].kind \in {"draw", "caught"}

\* C11 (as claimed): an error raised by the draw call of one object is caught,
\* and every ready object of the frame still gets its draw call in every view.
C11_BadObjectIsolated ==
  ViewsRan =>
    /\ \A i \in DOMAIN frameLog :
         frameLog[i].kind = "throw" => frameLog[i].obj = "setupFramebuffer"
    /\ \A i \in DOMAIN curRender.objects, v \in 1..NumViews :
         IsReady(curRender.objects[i]) => Drawn(curRender.objects[i].id, v)

\* C12 (as claimed): a call of render in which beginFrame succeeded has
\* called endFrame when it returns.
C12_EndFrameAfterBegin == began => ended

\* C13 (as claimed): a beginFrame that returns failure leaves the target's
\* stored frame, pose and views, the canvas backing-store size and the state
\* of gl as they were before the call.
C13_FailedBeginNoSideEffects == beginResult = "failed" => TargetState = beforeBegin

\* the draw calls of the last frame that belong to a view
IsViewDraw(e) == e.kind \in {"draw", "caught", "throw"} /\ e.view >= 1

\* the render type of a registered object
TypeOf(id) ==
  LET i == CHOOSE k \in DOMAIN curRender.objects : curRender.objects[k].id = id
  IN curRender.objects[i].renderType

\* the place of a draw call in the sequence Mesh, temporal splats, static
\* splats, Lines, debug overlay
Stage(e) ==
  IF e.pass = "mesh" THEN 1
  ELSE IF e.pass \in {"color", "depth"} THEN (IF TypeOf(e.obj) = "4dgs" THEN 2 ELSE 3)
  ELSE IF e.pass = "lines" THEN 4
  ELSE 5

IsObjectEvent(e) ==
  e.view >= 1 /\ \E k \in DOMAIN curRender.objects : curRender.objects[k].id = e.obj

\* the place objectOrder gives a registered object: its place in objectOrder,
\* or after all of objectOrder in insertion order when it is not named there
Rank(id) ==
  IF \E k \in DOMAIN lastOrder : lastOrder[k] = id
    THEN CHOOSE k \in DOMAIN lastOrder : lastOrder[k] = id
    ELSE Len(lastOrder) + (CHOOSE k \in DOMAIN curRender.objects : curRender.objects[k].id = id)

ObjectOf(id) ==
  curRender.objects[CHOOSE k \in DOMAIN curRender.objects : curRender.objects[k].id = id]

\* C16: every draw call of a frame is for an object whose ready flag is set,
\* whose buffers are present and whose count is above 0.
C16_OnlyDrawableDrawn ==
  \A i \in DOMAIN frameLog :
    (IsViewDraw(frameLog[i]) /\ IsObjectEvent(frameLog[i])) =>
      /\ ObjectOf(frameLog[i].obj).ready
      /\ ObjectOf(frameLog[i].obj).buffers
      /\ ObjectOf(frameLog[i].obj).count > 0

\* a completed frame that handled splat "a" before its first ordering (its
\* worker was sent the view) and drew the mesh "m", with a mesh without
\* buffers and a one-point lines object registered
C16_Witness ==
  /\ ended /\ Drawn("m", 1)
  /\ ~ObjectOf("a").ready
  /\ \E i \in DOMAIN frameLog : frameLog[i].obj = "a" /\ frameLog[i].kind = "post"
  /\ ~ObjectOf("n").buffers /\ ObjectOf("k").count = 1

\* the 1-based place of a registered object within the group of its type
IndexInGroup(id) ==
  Cardinality({k \in DOMAIN curRender.objects :
                 /\ curRender.objects[k].renderType = TypeOf(id)
                 /\ Rank(curRender.objects[k].id) <= Rank(id)})

IsSplatDraw(e) == IsViewDraw(e) /\ e.pass \in {"color", "depth"}

\* C17 (as claimed): every splat draw call carries the 1-based index of its
\* object within its group as stencil reference, and no two objects drawn in
\* the same view of a frame write the same stencil value.
C17_StencilValuesUnique ==
  /\ \A i \in DOMAIN frameLog :
       IsSplatDraw(frameLog[i]) => frameLog[i].stencil = IndexInGroup(frameLog[i].obj)
  /\ \A i, j \in DOMAIN frameLog :
       (/\ IsSplatDraw(frameLog[i]) /\ IsSplatDraw(frameLog[j])
        /\ frameLog[i].view = frameLog[j].view
        /\ frameLog[i].obj # frameLog[j].obj)
       => frameLog[i].stencil # frameLog[j].stencil

\* C18: an error raised in the worker is handed to the error callback, and
\* the callback leaves the object as it was: its ready flag, its index buffer
\* and its vertex count are those it had before the error was reported.
C18_ErrorKeepsLastOrdering ==
  /\ task = "raise" => pendingErrors > 0
  /\ task = "error" => (reportedErrors > 0 /\ HostState = beforeError)

\* an error reported for an object that had received an ordering and is drawn
C18_Witness ==
  /\ task = "error" /\ reportedErrors > 0
  /\ ready /\ indexBufferData # <<>>

\* C19 (as claimed): an object that is no longer in the scene has had its
\* worker terminated and its texture and index buffer deleted.
C19_RemovedObjectsReleased ==
  \A u \in 1..created :
    (\A i \in DOMAIN objectList : objectList[i].uid # u) =>
      (u \notin liveWorkers /\ u \notin liveGpu)

\* C20 (as claimed): the pitch of every camera, constructed, cloned, assigned
\* or rotated, lies within the clamp bounds.
C20_PitchInRange ==
  \A c \in {camera, cloned} :
    c.exists => (c.pitchRad >= -HalfPi + PitchMargin /\ c.pitchRad <= HalfPi - PitchMargin)

\* C21 (as claimed): a camera whose targetVerticalFOV is set holds no focal
\* lengths.
C21_FocalXorFov ==
  (optics.exists /\ optics.targetVerticalFOV # NoFov) =>
    (optics.fx = Cleared /\ optics.fy = Cleared)

\* C21 (amended): setting fx or fy clears targetVerticalFOV, so the getters
\* return the stored focal lengths; while targetVerticalFOV is set and the
\* height is positive the getters derive both focal lengths from it, and the
\* stored ones are kept.
C21_FocalSetterClearsFov ==
  /\ cameraOp.op \in {"setFx", "setFy"} =>
       /\ optics.targetVerticalFOV = NoFov
       /\ FxGetter(optics) = [from |-> "stored", value |-> optics.fx]
       /\ FyGetter(optics) = [from |-> "stored", value |-> optics.fy]
  /\ cameraOp.op = "setFov" =>
       /\ optics.fx = cameraOp.before.fx /\ optics.fy = cameraOp.before.fy
       /\ (optics.targetVerticalFOV # NoFov /\ optics.height > 0) =>
            (FxGetter(optics).from = "fov" /\ FyGetter(optics).from = "fov")

\* fx assigned on a camera whose targetVerticalFOV was set
C21_Witness ==
  /\ cameraOp.op = "setFx"
  /\ cameraOp.before.targetVerticalFOV # NoFov
  /\ optics.targetVerticalFOV = NoFov

\* C22 (as claimed): every camera holds 3-element position,
\* forwardHorizontalRef and worldUp vectors.
C22_VectorsHaveLength3 ==
  optics.exists =>
    (optics.position = 3 /\ optics.forwardHorizontalRef = 3 /\ optics.worldUp = 3)

IsPassOf(e, pass) == e.kind \in {"draw", "caught"} /\ e.pass = pass

\* C24 (as claimed): the depth-only call of a splat object in a view is issued
\* before its blended color call.
C24_DepthPassFirst ==
  \A j \in DOMAIN frameLog :
    IsPassOf(frameLog[j], "color") =>
      \E i \in 1..(j - 1) :
        /\ IsPassOf(frameLog[i], "depth")
        /\ frameLog[i].obj = frameLog[j].obj
        /\ frameLog[i].view = frameLog[j].view

\* C24 (amended): every splat object drawn in a view gets both calls, first
\* the blended color call (depth write off, depthWriteOnly clear), then the
\* depth-only call (depth write on, depthWriteOnly set), with no call of
\* another object between the two.
C24_ColorPassFirst ==
  \A i \in DOMAIN frameLog :
    /\ IsPassOf(frameLog[i], "color") =>
         \E j \in (i + 1)..Len(frameLog) :
           /\ IsPassOf(frameLog[j], "depth")
           /\ frameLog[j].obj = frameLog[i].obj
           /\ frameLog[j].view = frameLog[i].view
           /\ \A k \in (i + 1)..(j - 1) : frameLog[k].obj = frameLog[i].obj
    /\ IsPassOf(frameLog[i], "depth") =>
         \E j \in 1..(i - 1) :
           /\ IsPassOf(frameLog[j], "color")
           /\ frameLog[j].obj = frameLog[i].obj
           /\ frameLog[j].view = frameLog[i].view

\* a stereo frame that drew a temporal and a static splat object in each view
C24_Witness ==
  /\ ended
  /\ \A v \in {1, 2}, t \in {"4dgs", "3dgs"} :
       \E i \in DOMAIN frameLog :
         /\ frameLog[i].kind = "draw" /\ frameLog[i].pass = "depth"
         /\ frameLog[i].view = v /\ TypeOf(frameLog[i].obj) = t

\* a sortStrategy message posted to the worker of an object
IsStrategyPost(e) == e.kind = "post" /\ e.pass = "sortStrategy"

\* C25 (as claimed): render posts a sortStrategy message to the worker of an
\* object only when the requested strategy changed since the last one sent;
\* no strategy changes while render runs, so a frame posts at most one per
\* object.
C25_StrategyPostedOnChangeOnly ==
  \A i, j \in DOMAIN frameLog :
    (i < j /\ IsStrategyPost(frameLog[i]) /\ IsStrategyPost(frameLog[j])) =>
      frameLog[i].obj # frameLog[j].obj

C27_FirstSortLeadsToReady ==
  \A o \in LoadIds : (workerReadyRef[o] = "true") ~> renderObjs[o].ready

\* C29: whenever onLoadComplete is called, no object is loading, every object
\* of the scene is loaded and every worker has delivered its first ordering.
C29_CompleteOnlyWhenAllReady ==
  loadComplete.called =>
    /\ loadComplete.found.noLoading
    /\ loadComplete.found.allLoaded
    /\ loadComplete.found.allWorkersReady

\* C28 (as claimed): whenever the worker is idle with nothing left to handle,
\* and neither the strategy nor the vertex count changed since its last sort,
\* the camera-Z row of the view it received last is within the skip threshold
\* of the row of the view it sorted last.
C28_IdleWithinThreshold ==
  (/\ ~sortRunning /\ timers = <<>> /\ inbox = <<>>
   /\ positions.loaded /\ viewProj # NoView /\ lastProj # NoView
   /\ sortStrategy = lastSortStrategy /\ vertexCount = lastVertexCount)
    => Near(lastProj.row, viewProj.row)

\* the ids of the list, in order
ListIds(list) == [i \in DOMAIN list |-> list[i].id]

\* C30: the objects Map and objectList hold the same objects, each id once,
\* after every SceneManager operation; a step that reorders the list keeps
\* its objects and exchanges two adjacent entries.
C30_MapAndListAgree ==
  /\ [](/\ \A id \in SceneIds :
             (objectsMap[id] # NoObject) <=> (\E i \in DOMAIN objectList : objectList[i].id = id)
        /\ \A i \in DOMAIN objectList : objectsMap[objectList[i].id] = objectList[i].uid
        /\ \A i, j \in DOMAIN objectList : i # j => objectList[i].id # objectList[j].id)
  /\ [][(ListIds(objectList') # ListIds(objectList) /\ objectsMap' = objectsMap)
          => /\ moved'.op \in {"up", "down"}
             /\ LET i == moved'.from
                     j == IF moved'.op = "up" THEN i - 1 ELSE i + 1
                IN /\ i \in DOMAIN objectList /\ j \in DOMAIN objectList
                   /\ objectList[i].id = moved'.id
                   /\ objectList' = Swap(objectList, i, j)]_vars

\* the middle one of three objects, one of them added again after the others,
\* moved down to the end of the list
C30_Witness ==
  /\ Len(objectList) = 3
  /\ moved = [op |-> "down", id |-> objectList[3].id, from |-> 2]
  /\ created > 3
  /\ objectList[2].uid > objectList[3].uid

====
